---- MODULE Spec2Model ----
(***************************************************************************)
(* A model of multiflexxlib/ub.py: the UBMatrix orientation-matrix object  *)
(* with its string-keyed cache of conversion matrices, and the helper      *)
(* functions rotate_around_z, guess_axes_labels, make_label,               *)
(* find_triangle_angles and angle_to_qs.                                   *)
(*                                                                         *)
(* Numbers.  Miller indices, edge lengths and lattice lengths are small    *)
(* integers.  Real quantities the code obtains through sqrt, arccos, cos   *)
(* and sin are kept exactly, as signed square roots of reduced fractions.  *)
(* A 3x3 matrix of the cache is kept as its kind: "reg" (finite and        *)
(* invertible), "sing" (finite and exactly singular, numpy.linalg.inv      *)
(* raises LinAlgError) or "nan" (has NaN entries, numpy.linalg.inv returns *)
(* NaN without raising).  An ndarray argument of the helpers is kept as    *)
(* its shape.                                                              *)
(***************************************************************************)
EXTENDS Integers, Sequences, FiniteSets, TLC

VARIABLES
    ub,     \* the UBMatrix instance under test (a record), or None
    args,   \* the constructor arguments of ub
    last,   \* what the last operation on ub did (cache hit, inversions, writes)
    ubA,    \* first instance of the equality specification
    ubB,    \* second instance of the equality specification
    tri,    \* find_triangle_angles: arguments and outcome
    qs,     \* angle_to_qs: arguments and outcome
    lab,    \* guess_axes_labels: arguments and outcome
    rot     \* rotate_around_z: arguments and outcome

vars == <<ub, args, last, ubA, ubB, tri, qs, lab, rot>>

\* Python's None, as a scalar field and as an omitted vector argument
None == <<"None">>
NoVec == << >>
Idle == "idle"

(***************************************************************************)
(* Exact arithmetic                                                        *)
(***************************************************************************)
Abs(x) == IF x < 0 THEN -x ELSE x

Sign(x) == IF x < 0 THEN -1 ELSE IF x = 0 THEN 0 ELSE 1

RECURSIVE Gcd(_, _)
Gcd(m, n) == IF n = 0 THEN m ELSE Gcd(n, m % n)

Nan == <<"nan">>
Inf == <<"inf">>

\* sign * sqrt(num / den), with den > 0 and the fraction reduced
Root(sign, num, den) ==
    IF num = 0 THEN <<"root", 0, 0, 1>>
    ELSE LET g == Gcd(num, den) IN <<"root", sign, num \div g, den \div g>>

HalfPi == <<"halfpi">>

\* arccos(sign * sqrt(num / den))
ArcCos(sign, num, den) ==
    IF num = 0 THEN HalfPi
    ELSE LET g == Gcd(num, den) IN <<"arccos", sign, num \div g, den \div g>>

(***************************************************************************)
(* Matrix kinds                                                            *)
(***************************************************************************)
LinAlgError == "LinAlgError"

\* numpy.linalg.inv
KInv(k) == IF k = "sing" THEN LinAlgError ELSE k

\* numpy.dot of two 3x3 matrices
KDot(k1, k2) ==
    IF k1 = "nan" \/ k2 = "nan" THEN "nan"
    ELSE IF k1 = "sing" \/ k2 = "sing" THEN "sing"
    ELSE "reg"

(***************************************************************************)
(* Reciprocal-lattice geometry of a cell with right angles                 *)
(***************************************************************************)
ZeroVec == <<0, 0, 0>>

\* the squared lengths of the reciprocal axes a*, b*, c* = 2 pi / a, 2 pi / b,
\* 2 pi / c, in a common unit that makes them coprime integers
Metric(lat) ==
    LET w1 == (lat[2] * lat[3]) * (lat[2] * lat[3])
        w2 == (lat[1] * lat[3]) * (lat[1] * lat[3])
        w3 == (lat[1] * lat[2]) * (lat[1] * lat[2])
        g == Gcd(Gcd(w1, w2), w3)
    IN  IF g = 0 THEN <<0, 0, 0>> ELSE <<w1 \div g, w2 \div g, w3 \div g>>

\* rl . u dotted with rl . v, in that unit
DotL(lat, u, v) ==
    u[1] * v[1] * Metric(lat)[1] + u[2] * v[2] * Metric(lat)[2]
  + u[3] * v[3] * Metric(lat)[3]

\* numpy.cross of two Miller-index triples (zero exactly when rl.u x rl.v is)
Cross(u, v) ==
    <<u[2] * v[3] - u[3] * v[2], u[3] * v[1] - u[1] * v[3], u[1] * v[2] - u[2] * v[1]>>

(***************************************************************************)
(* UBMatrix                                                                *)
(***************************************************************************)
Systems == {"b", "r", "s", "p", "l"}

BaseKeys == {"bl", "rl", "sl", "pl", "ll"}

Key(sys) == sys[1] \o sys[2]

Reversed(sys) == <<sys[2], sys[1]>>

\* line 185 looks the matrix up under the literal string 'sys', whatever pair
\* was requested
LookupKey(sys) == "sys"

\* UBMatrix.convert on the cache cm: the cache afterwards, how the call ended,
\* whether the requested pair was cached when it was made, the matrix
\* inversions it ran, the cache entries it wrote and the kind of matrix applied
Convert(cm, sys, axis) ==
    LET cached == Key(sys) \in DOMAIN cm
        done(c, o, i, w, m) ==
            [cm |-> c, outcome |-> o, cached |-> cached,
             inversions |-> i, writes |-> w, matrix |-> m]
        apply(c, i, w, m) ==
            IF axis = 1 \/ axis = 0 THEN done(c, "ok", i, w, m)
            ELSE done(c, "ValueError", i, w, m)
    IN  IF LookupKey(sys) \in DOMAIN cm
        THEN apply(cm, 0, 0, cm[LookupKey(sys)])
        ELSE IF (sys[1] \o "l") \notin DOMAIN cm \/ (sys[2] \o "l") \notin DOMAIN cm
        THEN done(cm, "KeyError", 0, 0, "none")
        ELSE LET source_to_l_matrix == cm[sys[1] \o "l"]
                 target_to_l_matrix == cm[sys[2] \o "l"]
             IN  IF KInv(target_to_l_matrix) = LinAlgError
                 THEN done(cm, LinAlgError, 1, 0, "none")
                 ELSE LET conversion_matrix ==
                              KDot(KInv(target_to_l_matrix), source_to_l_matrix)
                          cm1 == (Key(sys) :> conversion_matrix) @@ cm
                      IN  IF KInv(conversion_matrix) = LinAlgError
                          THEN done(cm1, LinAlgError, 2, 1, "none")
                          ELSE apply((Key(Reversed(sys)) :> KInv(conversion_matrix)) @@ cm1,
                                     2, 2, conversion_matrix)

\* _calculate_bl, for a cell whose three angles are 90 degrees
CalculateBl(latparam) ==
    IF latparam[3] = 0 THEN "nan"
    ELSE IF latparam[1] = 0 \/ latparam[2] = 0 THEN "sing"
    ELSE "reg"

\* _calculate_rl
CalculateRl(cm) == KInv(cm["bl"])

\* _calculate_sl: the cross product and hkl1 are divided by their norms; a zero
\* norm gives 0/0 = NaN entries and no exception
CalculateSl(self, cm) ==
    IF cm["rl"] = "nan" THEN "nan"
    ELSE IF Cross(self.hkl1, self.hkl2) = ZeroVec THEN "nan"
    ELSE IF self.hkl1 = ZeroVec THEN "nan"
    ELSE "reg"

RS == <<"r", "s">>
SR == <<"s", "r">>

\* the actual plot y axis of the non-orthogonal branch (line 110): plot_x turned
\* by 90 degrees about the sample z axis and scaled by |y| sin(theta) / |x|
RotatedY(lat, px, pyn) ==
    LET d == DotL(lat, px, pyn)
        nx2 == DotL(lat, px, px)
        ny2 == DotL(lat, pyn, pyn)
    IN  <<"rot90", px, Root(1, ny2 * (nx2 * ny2 - d * d), nx2 * ny2 * nx2)>>

\* line 109: arccos(dot / (|x| |y|))
ThetaOf(lat, px, pyn) ==
    LET d == DotL(lat, px, pyn)
    IN  ArcCos(Sign(d), d * d, DotL(lat, px, px) * DotL(lat, pyn, pyn))

\* cos(theta)^2 as the pair <<numerator, denominator>>, and the sign of cos(theta)
CosSq(theta) == IF theta[1] = "halfpi" THEN <<0, 1>> ELSE <<theta[3], theta[4]>>

CosSign(theta) == IF theta[1] = "halfpi" THEN 0 ELSE theta[2]

\* line 113 without the two norms: cos(theta) alone
ShearCoeffCosOnly(lat, px, pyn, theta) ==
    Root(CosSign(theta), CosSq(theta)[1], CosSq(theta)[2])

\* line 113: |plot_y_nominal| * cos(theta) / |plot_x|
ShearCoeff(lat, px, pyn, theta) ==
    Root(CosSign(theta), DotL(lat, pyn, pyn) * CosSq(theta)[1],
         DotL(lat, px, px) * CosSq(theta)[2])

\* _update_plot_axes; exc names the exception that left it, if any
UpdatePlotAxes(self) ==
    LET lat == self.latparam
        px == self.plot_x
        pyn == self.plot_y_nominal
        c1 == Convert(self.conversion_matrices, RS, 1)
        c2 == Convert(c1.cm, RS, 1)
        c3 == Convert(c2.cm, SR, 1)
        theta == ThetaOf(lat, px, pyn)
    IN  IF c1.outcome # "ok"
        THEN [exc |-> c1.outcome, self |-> [self EXCEPT !.conversion_matrices = c1.cm]]
        ELSE IF c2.outcome # "ok"
        THEN [exc |-> c2.outcome, self |-> [self EXCEPT !.conversion_matrices = c2.cm]]
        ELSE IF c1.matrix # "nan" /\ DotL(lat, px, pyn) = 0
        THEN [exc |-> "none",
              self |-> [self EXCEPT !.conversion_matrices = c2.cm,
                                    !.plot_y = <<"vec", pyn>>,
                                    !.theta = HalfPi,
                                    !.shear_coeff = Root(0, 0, 1)]]
        ELSE IF c3.outcome # "ok"
        THEN [exc |-> c3.outcome,
              self |-> [self EXCEPT !.conversion_matrices = c3.cm,
                                    !.theta = IF c1.matrix = "nan" THEN Nan ELSE theta]]
        ELSE IF c1.matrix = "nan"
        THEN [exc |-> "none",
              self |-> [self EXCEPT !.conversion_matrices = c3.cm,
                                    !.plot_y = Nan,
                                    !.theta = Nan,
                                    !.shear_coeff = Nan]]
        ELSE [exc |-> "none",
              self |-> [self EXCEPT !.conversion_matrices = c3.cm,
                                    !.plot_y = RotatedY(lat, px, pyn),
                                    !.theta = theta,
                                    !.shear_coeff = ShearCoeff(lat, px, pyn, theta)]]

\* _calculate_pl: columns rl.plot_x, rl.plot_y and their cross product
CalculatePl(self) ==
    IF self.conversion_matrices["rl"] = "nan" \/ self.plot_y[1] = "nan" THEN "nan"
    ELSE IF self.plot_y[1] = "vec"
    THEN IF Cross(self.plot_x, self.plot_y[2]) = ZeroVec THEN "sing" ELSE "reg"
    ELSE IF self.plot_y[3][3] = 0 THEN "sing" ELSE "reg"

\* _calculate_aspect
CalculateAspect(self) ==
    LET lat == self.latparam
        c1 == Convert(self.conversion_matrices, RS, 1)
        c2 == Convert(c1.cm, RS, 1)
        nx2 == DotL(lat, self.plot_x, self.plot_x)
        ny2 == IF self.plot_y[1] = "vec"
               THEN DotL(lat, self.plot_y[2], self.plot_y[2]) ELSE 0
        aspect ==
            IF c1.matrix = "nan" \/ self.plot_y[1] = "nan" THEN Nan
            ELSE IF self.plot_y[1] = "rot90" THEN self.plot_y[3]
            ELSE IF nx2 = 0 THEN (IF ny2 = 0 THEN Nan ELSE Inf)
            ELSE Root(1, ny2, nx2)
    IN  IF c1.outcome # "ok"
        THEN [exc |-> c1.outcome, self |-> [self EXCEPT !.conversion_matrices = c1.cm]]
        ELSE IF c2.outcome # "ok"
        THEN [exc |-> c2.outcome, self |-> [self EXCEPT !.conversion_matrices = c2.cm]]
        ELSE [exc |-> "none",
              self |-> [self EXCEPT !.conversion_matrices = c2.cm,
                                    !.figure_aspect = aspect]]

\* update_conversion_matrices
UpdateConversionMatrices(self) ==
    LET cm_bl == ("bl" :> CalculateBl(self.latparam)) @@ ("ll" :> "reg")
        cm_rl == ("rl" :> CalculateRl(cm_bl)) @@ cm_bl
        cm_sl == ("sl" :> CalculateSl(self, cm_rl)) @@ cm_rl
        axes == UpdatePlotAxes([self EXCEPT !.conversion_matrices = cm_sl])
        with_pl == [axes.self EXCEPT !.conversion_matrices =
                        ("pl" :> CalculatePl(axes.self)) @@ axes.self.conversion_matrices]
    IN  IF CalculateRl(cm_bl) = LinAlgError
        THEN [exc |-> LinAlgError, self |-> [self EXCEPT !.conversion_matrices = cm_bl]]
        ELSE IF axes.exc # "none" THEN axes
        ELSE CalculateAspect(with_pl)

\* the fields as __init__ sets them before its call of update_conversion_matrices
Fields(latparam, hkl1, hkl2, plot_x, plot_y) ==
    [latparam |-> latparam, hkl1 |-> hkl1, hkl2 |-> hkl2,
     plot_x |-> IF plot_x = NoVec \/ plot_y = NoVec THEN hkl1 ELSE plot_x,
     plot_y_nominal |-> IF plot_x = NoVec \/ plot_y = NoVec THEN hkl2 ELSE plot_y,
     plot_y |-> None, theta |-> None, shear_coeff |-> None,
     conversion_matrices |-> << >>, figure_aspect |-> None]

\* UBMatrix.__init__
UBMatrix(latparam, hkl1, hkl2, plot_x, plot_y) ==
    UpdateConversionMatrices(Fields(latparam, hkl1, hkl2, plot_x, plot_y))

\* is_orthogonal: numpy.isclose(theta, pi / 2)
IsOrthogonal(self) == self.theta[1] = "halfpi"

\* __copy__
Copy(self) ==
    UBMatrix(self.latparam, self.hkl1, self.hkl2, self.plot_x, self.plot_y_nominal)

\* __eq__ if it also compared the caches
EqWithCache(self, other) ==
    /\ self.latparam = other.latparam
    /\ self.hkl1 = other.hkl1 /\ self.hkl2 = other.hkl2
    /\ self.plot_x = other.plot_x /\ self.plot_y_nominal = other.plot_y_nominal
    /\ DOMAIN self.conversion_matrices = DOMAIN other.conversion_matrices

\* __eq__
Eq(self, other) ==
    LET latparam_eq == self.latparam = other.latparam
        hkl_eq == self.hkl1 = other.hkl1 /\ self.hkl2 = other.hkl2
        plot_eq == self.plot_x = other.plot_x
                   /\ self.plot_y_nominal = other.plot_y_nominal
    IN  IF latparam_eq /\ hkl_eq /\ plot_eq THEN TRUE ELSE FALSE

\* __ne__
Ne(self, other) == ~Eq(self, other)

(***************************************************************************)
(* Inputs of the UBMatrix specifications                                   *)
(***************************************************************************)
MaxIndex == 2
MaxPlotIndex == 1

\* Miller-index triples of the hk plane: the scattering-plane directions
Vecs == {<<h, k, 0>> : h \in 0..MaxIndex, k \in 0..MaxIndex}

\* the plot axes
PlotVecs == {<<h, k, 0>> : h \in 0..MaxPlotIndex, k \in 0..MaxPlotIndex}

\* cubic cells [a, a, a, 90, 90, 90]
Lattices == {<<a, a, a, 90, 90, 90>> : a \in 4..5}

Cubic5 == <<5, 5, 5, 90, 90, 90>>

Args(latparam, hkl1, hkl2, plot_x, plot_y) ==
    [latparam |-> latparam, hkl1 |-> hkl1, hkl2 |-> hkl2,
     plot_x |-> plot_x, plot_y |-> plot_y]

BuildArgs ==
    {Args(lat, h1, h2, px, py) :
        lat \in Lattices, h1 \in Vecs, h2 \in Vecs,
        px \in PlotVecs \cup {NoVec}, py \in PlotVecs \cup {NoVec}}

NoArgs == Args(ZeroVec, NoVec, NoVec, NoVec, NoVec)

\* last: the operation, how it ended, whether the requested pair was cached
\* when it was made, the inversions it ran, the cache entries it wrote, and the
\* convert calls made since the cache was last rebuilt
NoCall == [op |-> "none", outcome |-> "none", cached |-> FALSE,
           inversions |-> 0, writes |-> 0, calls |-> 0]

Blank == Fields(ZeroVec, NoVec, NoVec, NoVec, NoVec)

UBIdle == ub = Blank /\ args = NoArgs /\ last = NoCall

EqIdle == ubA = Blank /\ ubB = Blank

(***************************************************************************)
(* SpecBuild: the constructor, over every argument tuple of BuildArgs      *)
(***************************************************************************)
\* __init__ up to line 55: the fields are set, the cache is not built yet
InitBuild ==
    /\ args \in BuildArgs
    /\ ub = Fields(args.latparam, args.hkl1, args.hkl2, args.plot_x, args.plot_y)
    /\ last = [NoCall EXCEPT !.op = "init"]
    /\ EqIdle /\ tri = Idle /\ qs = Idle /\ lab = Idle /\ rot = Idle

\* __init__ line 56: update_conversion_matrices()
Build ==
    /\ last.op = "init"
    /\ \E r \in {UpdateConversionMatrices(ub)} :
           /\ ub' = r.self
           /\ last' = [NoCall EXCEPT !.op = "built", !.outcome = r.exc]
    /\ UNCHANGED <<args, ubA, ubB, tri, qs, lab, rot>>

NextBuild == Build

SpecBuild == InitBuild /\ [][NextBuild]_vars

(***************************************************************************)
(* SpecCache: convert and update_conversion_matrices on a built instance   *)
(***************************************************************************)
CacheArgs ==
    {Args(Cubic5, <<1, 0, 0>>, <<0, 1, 0>>, NoVec, NoVec),
     Args(Cubic5, <<1, 0, 0>>, <<1, 1, 0>>, NoVec, NoVec),
     Args(Cubic5, <<1, 0, 0>>, <<2, 0, 0>>, NoVec, NoVec),
     Args(Cubic5, <<1, 0, 0>>, <<0, 1, 0>>, <<1, 0, 0>>, <<1, 0, 0>>)}

Axes == {0, 1, 2}

MaxCalls == 3

InitCache ==
    /\ args \in CacheArgs
    /\ LET r == UBMatrix(args.latparam, args.hkl1, args.hkl2, args.plot_x, args.plot_y)
       IN  /\ r.exc = "none"
           /\ ub = r.self
    /\ last = [NoCall EXCEPT !.op = "built"]
    /\ EqIdle /\ tri = Idle /\ qs = Idle /\ lab = Idle /\ rot = Idle

\* ub.convert(vectors, sys, axis)
ConvertCall ==
    \E sys \in Systems \X Systems, axis \in Axes :
        \E r \in {Convert(ub.conversion_matrices, sys, axis)} :
            /\ last.calls < MaxCalls
            /\ ub' = [ub EXCEPT !.conversion_matrices = r.cm]
            /\ last' = [op |-> "convert", outcome |-> r.outcome, cached |-> r.cached,
                        inversions |-> r.inversions, writes |-> r.writes,
                        calls |-> last.calls + 1]
            /\ UNCHANGED <<args, ubA, ubB, tri, qs, lab, rot>>

\* ub.update_conversion_matrices()
Recompute ==
    /\ \E r \in {UpdateConversionMatrices(ub)} :
           /\ ub' = r.self
           /\ last' = [NoCall EXCEPT !.op = "update", !.outcome = r.exc]
    /\ UNCHANGED <<args, ubA, ubB, tri, qs, lab, rot>>

NextCache == ConvertCall \/ Recompute

SpecCache == InitCache /\ [][NextCache]_vars

(***************************************************************************)
(* Claims about UBMatrix                                                   *)
(***************************************************************************)
Built == last.op \in {"built", "convert", "update"}

\* C1: in every state reached after construction by convert calls and
\* recomputes, the cache holds the five base keys bl, rl, sl, pl, ll, and every
\* cached pair that is not a base key has its reversed pair cached as well.
C1_BaseKeysAndSymmetry ==
    Built =>
        /\ BaseKeys \subseteq DOMAIN ub.conversion_matrices
        /\ \A sys \in Systems \X Systems :
               (Key(sys) \in DOMAIN ub.conversion_matrices /\ Key(sys) \notin BaseKeys)
                   => Key(Reversed(sys)) \in DOMAIN ub.conversion_matrices

\* C2: a convert call whose requested pair is already cached runs no matrix
\* inversion and writes nothing to the cache; a call whose pair is absent, and
\* only such a call, computes the transform and inserts it with its reverse.
C2_CachedPairIsReused ==
    last.op = "convert" =>
        /\ last.cached => (last.inversions = 0 /\ last.writes = 0)
        /\ (~last.cached /\ last.outcome = "ok") => last.writes = 2

\* hkl1 and hkl2 are collinear or zero: their cross product is the zero vector
Degenerate(a) == Cross(a.hkl1, a.hkl2) = ZeroVec

\* C4: constructing with collinear or zero hkl1, hkl2 fails with an error; the
\* construction never completes with a sample-frame matrix obtained by
\* dividing by the zero length of the cross product.
C4_DegeneratePlaneFails ==
    (last.op = "built" /\ Degenerate(args)) =>
        /\ last.outcome # "none"
        /\ "sl" \notin DOMAIN ub.conversion_matrices

C5Args == Args(Cubic5, <<1, 0, 0>>, <<1, 1, 0>>, NoVec, NoVec)

\* C5 as stated: hkl1 = [1,0,0], hkl2 = [1,1,0] on the cubic lattice a = 5 takes
\* the non-orthogonal branch with theta = 45 degrees and shear_coeff = cos(pi/4),
\* that is shear_coeff^2 = 1/2.
C5_ShearIsCosQuarterPi ==
    (last.op = "built" /\ args = C5Args) =>
        /\ last.outcome = "none"
        /\ ~IsOrthogonal(ub)
        /\ ub.theta = ArcCos(1, 1, 2)
        /\ ub.shear_coeff = Root(1, 1, 2)

\* C5 as amended: the same construction takes the non-orthogonal branch with
\* theta = 45 degrees (cos(theta)^2 = 1/2) and shear_coeff =
\* |plot_y_nominal| cos(theta) / |plot_x| = sqrt(2) cos(pi/4) = 1.
C5_ShearIsOne ==
    (last.op = "built" /\ args = C5Args) =>
        /\ last.outcome = "none"
        /\ ~IsOrthogonal(ub)
        /\ ub.theta = ArcCos(1, 1, 2)
        /\ ub.shear_coeff = Root(1, 1, 1)

C5_Witness ==
    /\ last.op = "built" /\ args = C5Args
    /\ ub.theta[1] = "arccos"
    /\ ub.shear_coeff[1] = "root"

(***************************************************************************)
(* SpecEq: two instances, converts on either, copy, and == between them    *)
(***************************************************************************)
Cubic4 == <<4, 4, 4, 90, 90, 90>>

EqArgs ==
    {Args(Cubic5, <<1, 0, 0>>, <<0, 1, 0>>, NoVec, NoVec),
     Args(Cubic5, <<1, 0, 0>>, <<0, 1, 0>>, <<1, 0, 0>>, <<0, 1, 0>>),
     Args(Cubic5, <<1, 0, 0>>, <<0, 1, 0>>, <<1, 1, 0>>, NoVec),
     Args(Cubic5, <<1, 0, 0>>, <<0, 1, 0>>, <<1, 1, 0>>, <<0, 1, 0>>),
     Args(Cubic5, <<1, 0, 0>>, <<1, 1, 0>>, NoVec, NoVec),
     Args(Cubic4, <<1, 0, 0>>, <<0, 1, 0>>, NoVec, NoVec)}

\* the systems the converts of this specification go between
EqSystems == {"s", "p"}

\* in this specification args is the pair of the two instances' constructor
\* arguments
InitEq ==
    /\ args \in EqArgs \X EqArgs
    /\ \E ra \in {UBMatrix(args[1].latparam, args[1].hkl1, args[1].hkl2,
                           args[1].plot_x, args[1].plot_y)},
          rb \in {UBMatrix(args[2].latparam, args[2].hkl1, args[2].hkl2,
                           args[2].plot_x, args[2].plot_y)} :
           /\ ra.exc = "none" /\ rb.exc = "none"
           /\ ubA = ra.self /\ ubB = rb.self
    /\ ub = Blank /\ last = NoCall
    /\ tri = Idle /\ qs = Idle /\ lab = Idle /\ rot = Idle

\* ubA.convert(vectors, sys, axis)
ConvertA ==
    \E sys \in EqSystems \X EqSystems, axis \in {0, 1} :
        /\ ubA' = [ubA EXCEPT !.conversion_matrices =
                       Convert(ubA.conversion_matrices, sys, axis).cm]
        /\ UNCHANGED <<ub, args, last, ubB, tri, qs, lab, rot>>

\* ubB.convert(vectors, sys, axis)
ConvertB ==
    \E sys \in EqSystems \X EqSystems, axis \in {0, 1} :
        /\ ubB' = [ubB EXCEPT !.conversion_matrices =
                       Convert(ubB.conversion_matrices, sys, axis).cm]
        /\ UNCHANGED <<ub, args, last, ubA, tri, qs, lab, rot>>

\* ubB = ubA.copy()
CopyA ==
    /\ \E r \in {Copy(ubA)} :
           /\ r.exc = "none"
           /\ ubB' = r.self
    /\ args' = <<args[1], Args(ubA.latparam, ubA.hkl1, ubA.hkl2,
                               ubA.plot_x, ubA.plot_y_nominal)>>
    /\ UNCHANGED <<ub, last, ubA, tri, qs, lab, rot>>

NextEq == ConvertA \/ ConvertB \/ CopyA

SpecEq == InitEq /\ [][NextEq]_vars

\* the four input groups an argument tuple defines: the lattice parameters,
\* hkl1, hkl2 and the plot axes, which are hkl1 and hkl2 when either is omitted
Groups(a) ==
    <<a.latparam, a.hkl1, a.hkl2,
      IF a.plot_x = NoVec \/ a.plot_y = NoVec THEN <<a.hkl1, a.hkl2>>
      ELSE <<a.plot_x, a.plot_y>>>>

\* C3: two instances built from identical lattice parameters, hkl1, hkl2 and
\* plot axes (an instance and its copy() among them) compare equal with ==,
\* whatever converts were applied to either; the result of == depends only on
\* the four input groups and never on the cache contents.
C3_EqualityIgnoresCache ==
    /\ args[1] = args[2] => (Eq(ubA, ubB) /\ Eq(ubB, ubA) /\ ~Ne(ubA, ubB))
    /\ Eq(ubA, ubB) <=> (Groups(args[1]) = Groups(args[2]))
    /\ Ne(ubA, ubB) <=> (Groups(args[1]) # Groups(args[2]))

C3_Witness ==
    /\ args[1] = args[2]
    /\ "sp" \in DOMAIN ubA.conversion_matrices
    /\ "sp" \notin DOMAIN ubB.conversion_matrices
    /\ Eq(ubA, ubB)

(***************************************************************************)
(* find_triangle_angles                                                    *)
(***************************************************************************)
\* the test of line 325 with >= in place of >
AbsAtLeastOne(n, d) == Abs(n) >= Abs(d)

\* line 325: abs(aa) > 1, for the true quotient aa = n / d, d # 0
CosineOutOfRange(n, d) == Abs(n) > Abs(d)

TriangleDoesNotClose == "ValueError: Scattering triangle does not close."

\* arccos(n / d)
ArcCosQ(n, d) ==
    LET g == Gcd(Abs(n), Abs(d))
    IN  <<"arccos", Sign(n) * Sign(d), (n \div g) * (n \div g), (d \div g) * (d \div g)>>

\* find_triangle_angles(a, b, c); the three cosines are kept as numerator and
\* denominator
find_triangle_angles(a, b, c) ==
    LET aa == <<b * b + c * c - a * a, 2 * b * c>>
        bb == <<a * a + c * c - b * b, 2 * a * c>>
        cc == <<a * a + b * b - c * c, 2 * a * b>>
    IN  IF aa[2] = 0 \/ bb[2] = 0 \/ cc[2] = 0
        THEN [exc |-> "ZeroDivisionError", angles |-> << >>]
        ELSE IF CosineOutOfRange(aa[1], aa[2]) \/ CosineOutOfRange(bb[1], bb[2])
                \/ CosineOutOfRange(cc[1], cc[2])
        THEN [exc |-> TriangleDoesNotClose, angles |-> << >>]
        ELSE [exc |-> "none",
              angles |-> <<ArcCosQ(aa[1], aa[2]), ArcCosQ(bb[1], bb[2]),
                           ArcCosQ(cc[1], cc[2])>>]

MaxEdge == 5

InitTriangle ==
    /\ tri \in [a : 1..MaxEdge, b : 1..MaxEdge, c : 1..MaxEdge,
                pc : {"call"}, exc : {"none"}, angles : {<< >>}]
    /\ UBIdle /\ EqIdle /\ qs = Idle /\ lab = Idle /\ rot = Idle

SolveTriangle ==
    /\ tri.pc = "call"
    /\ \E r \in {find_triangle_angles(tri.a, tri.b, tri.c)} :
           tri' = [tri EXCEPT !.pc = "done", !.exc = r.exc, !.angles = r.angles]
    /\ UNCHANGED <<ub, args, last, ubA, ubB, qs, lab, rot>>

NextTriangle == SolveTriangle

SpecTriangle == InitTriangle /\ [][NextTriangle]_vars

\* C6: for positive edge lengths find_triangle_angles fails with 'triangle does
\* not close' exactly when one of the three law-of-cosines values has absolute
\* value above 1, which is exactly when one edge is longer than the sum of the
\* other two; (1,1,3) fails and (3,4,5) returns three angles.
C6_FailsIffTriangleInequalityViolated ==
    tri.pc = "done" =>
        LET a == tri.a
            b == tri.b
            c == tri.c
            cosineAboveOne ==
                \/ Abs(b * b + c * c - a * a) > 2 * b * c
                \/ Abs(a * a + c * c - b * b) > 2 * a * c
                \/ Abs(a * a + b * b - c * c) > 2 * a * b
            edgeTooLong == a > b + c \/ b > a + c \/ c > a + b
        IN  /\ (tri.exc = TriangleDoesNotClose) <=> cosineAboveOne
            /\ (tri.exc = TriangleDoesNotClose) <=> edgeTooLong
            /\ tri.exc # TriangleDoesNotClose
                   => (tri.exc = "none" /\ Len(tri.angles) = 3)
            /\ (a = 1 /\ b = 1 /\ c = 3) => tri.exc = TriangleDoesNotClose
            /\ (a = 3 /\ b = 4 /\ c = 5) => (tri.exc = "none" /\ Len(tri.angles) = 3)

C6_Witness ==
    /\ tri.pc = "done" /\ tri.a = 1 /\ tri.b = 1 /\ tri.c = 3
    /\ tri.exc = TriangleDoesNotClose

(***************************************************************************)
(* make_label and guess_axes_labels, on integer Miller indices             *)
(***************************************************************************)
labels == <<"H", "K", "L">>

\* Fraction(x).limit_denominator(10) of an integer x
LimitDenominator(x) == x

\* '[' + ' '.join(parts) + ']'
JoinLabel(parts) == "[" \o parts[1] \o " " \o parts[2] \o " " \o parts[3] \o "]"

\* a make_label that leaves the zero components out
JoinNonzero(hkl, symbol) ==
    LET part(i) == IF hkl[i] = 1 THEN symbol
                   ELSE IF hkl[i] = -1 THEN "-" \o symbol
                   ELSE ToString(hkl[i]) \o symbol
        nz == SelectSeq(<<1, 2, 3>>, LAMBDA i : hkl[i] # 0)
    IN  IF Len(nz) = 0 THEN "[]"
        ELSE IF Len(nz) = 1 THEN "[" \o part(nz[1]) \o "]"
        ELSE IF Len(nz) = 2 THEN "[" \o part(nz[1]) \o " " \o part(nz[2]) \o "]"
        ELSE JoinLabel(<<part(1), part(2), part(3)>>)

\* make_label(hkl, symbol), return_list = False
make_label(hkl, symbol) ==
    LET hkl_fractions == [i \in 1..3 |-> LimitDenominator(hkl[i])]
        use_absolute == [i \in 1..3 |-> 100 * Abs(hkl_fractions[i] - hkl[i]) > 1]
        part(i) ==
            IF hkl[i] = 0 THEN "0"
            ELSE IF hkl[i] = 1 THEN symbol
            ELSE IF hkl[i] = -1 THEN "-" \o symbol
            ELSE IF use_absolute[i] THEN ToString(hkl[i]) \o ".00" \o symbol
            ELSE ToString(hkl_fractions[i]) \o symbol
    IN  JoinLabel(<<part(1), part(2), part(3)>>)

\* list.count(True)
CountTrue(flags) == Cardinality({i \in 1..3 : flags[i]})

\* list.index(True), 0 when it raises ValueError
IndexTrue(flags) ==
    IF flags[1] THEN 1 ELSE IF flags[2] THEN 2 ELSE IF flags[3] THEN 3 ELSE 0

AllZeroes == "ValueError: guess axis labels: axis supplied is all zeroes."
CoLinear == "ValueError: guess axis labels: supplied axes are co-linear."
NotInList == "ValueError: True is not in list"

\* the test of line 268 applied to hkl1 instead of hkl2
SingleComponentOfFirst(hkl1_nonzero, hkl2_nonzero) == CountTrue(hkl1_nonzero) = 1

\* line 268: the axis with only one component gets precedence
SingleComponent(hkl1_nonzero, hkl2_nonzero) == CountTrue(hkl2_nonzero) = 1

\* guess_axes_labels(hkl1, hkl2)
guess_axes_labels(hkl1, hkl2) ==
    LET hkl1_nonzero == [i \in 1..3 |-> hkl1[i] # 0]
        hkl2_nonzero == [i \in 1..3 |-> hkl2[i] # 0]
        raise(e) == [exc |-> e, symbol_x |-> "", symbol_y |-> "", result |-> << >>]
        return(sx, sy) ==
            [exc |-> "none", symbol_x |-> sx, symbol_y |-> sy,
             result |-> <<make_label(hkl1, sx), make_label(hkl2, sy)>>]
        first1 == IndexTrue(hkl1_nonzero)
        first2 == IndexTrue(hkl2_nonzero)
        hkl1_rest == [hkl1_nonzero EXCEPT ![first1] = FALSE]
        hkl2_rest == [hkl2_nonzero EXCEPT ![first1] = FALSE]
    IN  IF CountTrue(hkl1_nonzero) = 0 \/ CountTrue(hkl2_nonzero) = 0
        THEN raise(AllZeroes)
        ELSE IF SingleComponent(hkl1_nonzero, hkl2_nonzero)
        THEN IF labels[first1] # labels[first2]
             THEN return(labels[first1], labels[first2])
             ELSE IF IndexTrue(hkl1_rest) = 0 THEN raise(CoLinear)
             ELSE return(labels[IndexTrue(hkl1_rest)], labels[first2])
        ELSE IF labels[first1] = labels[first2]
        THEN IF IndexTrue(hkl2_rest) = 0 THEN raise(NotInList)
             ELSE return(labels[first1], labels[IndexTrue(hkl2_rest)])
        ELSE return(labels[first1], labels[first2])

MaxLabelIndex == 1

LabelVecs ==
    {<<h, k, l>> : h \in -1..MaxLabelIndex, k \in -1..MaxLabelIndex,
                   l \in -1..MaxLabelIndex}

InitLabels ==
    /\ lab \in [hkl1 : LabelVecs, hkl2 : LabelVecs, pc : {"call"}, exc : {"none"},
                symbol_x : {""}, symbol_y : {""}, result : {<< >>}]
    /\ UBIdle /\ EqIdle /\ tri = Idle /\ qs = Idle /\ rot = Idle

GuessLabels ==
    /\ lab.pc = "call"
    /\ \E r \in {guess_axes_labels(lab.hkl1, lab.hkl2)} :
           lab' = [lab EXCEPT !.pc = "done", !.exc = r.exc, !.symbol_x = r.symbol_x,
                              !.symbol_y = r.symbol_y, !.result = r.result]
    /\ UNCHANGED <<ub, args, last, ubA, ubB, tri, qs, rot>>

NextLabels == GuessLabels

SpecLabels == InitLabels /\ [][NextLabels]_vars

\* C8 as stated: guess_axes_labels([1,0,0], [0,1,0]) returns ("[H]", "[K]").
C8_ReturnsBareSymbols ==
    (lab.pc = "done" /\ lab.hkl1 = <<1, 0, 0>> /\ lab.hkl2 = <<0, 1, 0>>)
        => (lab.exc = "none" /\ lab.result = <<"[H]", "[K]">>)

\* C8 as amended: guess_axes_labels([1,0,0], [0,1,0]) returns
\* ("[H 0 0]", "[0 K 0]"): every component is printed, a zero one as "0".
C8_ReturnsAllThreeComponents ==
    (lab.pc = "done" /\ lab.hkl1 = <<1, 0, 0>> /\ lab.hkl2 = <<0, 1, 0>>)
        => (lab.exc = "none" /\ lab.result = <<"[H 0 0]", "[0 K 0]">>)

C8_Witness ==
    /\ lab.pc = "done" /\ lab.hkl1 = <<1, 0, 0>> /\ lab.hkl2 = <<0, 1, 0>>
    /\ Len(lab.result) = 2

\* the indices of the nonzero components of an axis
NonzeroAt(hkl) == {i \in 1..3 : hkl[i] # 0}

\* C9: for axes with at least one nonzero component each, guess_axes_labels
\* fails with 'co-linear axes' exactly when both axes have exactly one nonzero
\* component, at the same index; in every other case it returns two labels,
\* and an axis with exactly one nonzero component gets the symbol at that
\* component's index.  An axis with no nonzero component is an invalid-input
\* error.
C9_CoLinearExactlyWhenSameSingleComponent ==
    lab.pc = "done" =>
        LET n1 == NonzeroAt(lab.hkl1)
            n2 == NonzeroAt(lab.hkl2)
        IN  IF n1 = {} \/ n2 = {} THEN lab.exc = AllZeroes
            ELSE /\ (lab.exc = CoLinear)
                        <=> (Cardinality(n1) = 1 /\ Cardinality(n2) = 1 /\ n1 = n2)
                 /\ lab.exc # CoLinear => (lab.exc = "none" /\ Len(lab.result) = 2)
                 /\ (lab.exc = "none" /\ Cardinality(n1) = 1)
                        => \A i \in n1 : lab.symbol_x = labels[i]
                 /\ (lab.exc = "none" /\ Cardinality(n2) = 1)
                        => \A i \in n2 : lab.symbol_y = labels[i]

C9_Witness ==
    /\ lab.pc = "done" /\ lab.hkl1 = <<1, 0, 0>> /\ lab.hkl2 = <<-1, 0, 0>>
    /\ lab.exc = CoLinear

(***************************************************************************)
(* rotate_around_z and angle_to_qs, on the shapes of their arrays          *)
(***************************************************************************)
Max(m, n) == IF m > n THEN m ELSE n
Min(m, n) == IF m < n THEN m ELSE n

\* numpy.atleast_2d of a shape of at most two dimensions
AtLeast2d(shape) ==
    IF Len(shape) = 0 THEN <<1, 1>>
    ELSE IF Len(shape) = 1 THEN <<1, shape[1]>>
    ELSE shape

BroadcastError == "ValueError: operands could not be broadcast together"
ConcatError == "ValueError: all the input array dimensions must match"
RotationAxisError == "ValueError: rotation axis should be either 1 or 0"
IndexError == "IndexError"
TypeError == "TypeError"

Raised(e) == [exc |-> e, shape |-> << >>]
Returned(shape) == [exc |-> "none", shape |-> shape]

\* the shape of s1 * s2 (numpy broadcasting), shapes of at most two dimensions
Broadcast(s1, s2) ==
    LET p1 == AtLeast2d(s1)
        p2 == AtLeast2d(s2)
        ok(i) == p1[i] = p2[i] \/ p1[i] = 1 \/ p2[i] = 1
        dim(i) == IF p1[i] = 1 THEN p2[i] ELSE p1[i]
        nd == Max(Len(s1), Len(s2))
    IN  IF ~(ok(1) /\ ok(2)) THEN Raised(BroadcastError)
        ELSE IF nd = 0 THEN Returned(<< >>)
        ELSE IF nd = 1 THEN Returned(<<dim(2)>>)
        ELSE Returned(<<dim(1), dim(2)>>)

\* numpy.vstack of three arrays
VStack(s1, s2, s3) ==
    LET p1 == AtLeast2d(s1)
        p2 == AtLeast2d(s2)
        p3 == AtLeast2d(s3)
    IN  IF p1[2] # p2[2] \/ p1[2] # p3[2] THEN Raised(ConcatError)
        ELSE Returned(<<p1[1] + p2[1] + p3[1], p1[2]>>)

\* the axis selector: <<"int", n>>, <<"float", n>> for n + 0.5, <<"none", 0>>
\* for None, <<"str", 0>> for a string
AxisIs(axis, n) == axis[1] = "int" /\ axis[2] = n

\* lines 241-246: the slices of the try block; the exception it leaves with, or
\* the shape of each of x, y, z
TrySlices(vectors, axis) ==
    IF AxisIs(axis, 1)
    THEN IF vectors.type # "ndarray" THEN Raised(TypeError)
         ELSE IF Len(vectors.shape) # 2 THEN Raised(IndexError)
         ELSE IF vectors.shape[1] < 3 THEN Raised(IndexError)
         ELSE Returned(<<vectors.shape[2]>>)
    ELSE IF AxisIs(axis, 0)
    THEN IF vectors.type # "ndarray" THEN Raised(TypeError)
         ELSE IF Len(vectors.shape) # 2 THEN Raised(IndexError)
         ELSE IF vectors.shape[2] < 3 THEN Raised(IndexError)
         ELSE Returned(<<vectors.shape[1]>>)
    \* line 246: the message is formatted with '%d' % axis before the raise
    ELSE IF axis[1] \in {"int", "float"} THEN Raised(RotationAxisError)
    ELSE Raised(TypeError)

\* line 249: vectors[0], vectors[1], vectors[2]
SingleSlices(vectors) ==
    IF Len(vectors.shape) = 0 THEN Raised(IndexError)
    ELSE IF vectors.shape[1] < 3 THEN Raised(IndexError)
    ELSE Returned(Tail(vectors.shape))

\* rotate_around_z(vectors, angles, axis)
rotate_around_z(vectors, angles, axis) ==
    LET try == TrySlices(vectors, axis)
        single_vector == try.exc \in {IndexError, TypeError}
        xyz == IF single_vector THEN SingleSlices(vectors) ELSE try
        rotated == Broadcast(xyz.shape, angles)
        results == VStack(rotated.shape, rotated.shape, xyz.shape)
    IN  IF xyz.exc # "none" THEN Raised(xyz.exc)
        ELSE IF rotated.exc # "none" THEN Raised(rotated.exc)
        ELSE IF results.exc # "none" THEN Raised(results.exc)
        ELSE IF single_vector THEN Returned(<<results.shape[1] * results.shape[2]>>)
        ELSE IF AxisIs(axis, 1) THEN Returned(results.shape)
        ELSE Returned(<<results.shape[2], results.shape[1]>>)

MaxBatch == 3

RotateVectors ==
    {[type |-> "ndarray", shape |-> <<3>>], [type |-> "list", shape |-> <<3>>]}
    \cup {[type |-> "ndarray", shape |-> <<3, n>>] : n \in 1..MaxBatch}
    \cup {[type |-> "ndarray", shape |-> <<n, 3>>] : n \in 1..MaxBatch}

RotateAngles == {<< >>} \cup {<<n>> : n \in 1..MaxBatch}

RotateAxes ==
    {<<"int", n>> : n \in -1..2} \cup {<<"float", 2>>, <<"none", 0>>, <<"str", 0>>}

InitRotate ==
    /\ rot \in [vectors : RotateVectors, angles : RotateAngles, axis : RotateAxes,
                pc : {"call"}, exc : {"none"}, shape : {<< >>}]
    /\ UBIdle /\ EqIdle /\ tri = Idle /\ qs = Idle /\ lab = Idle

Rotate ==
    /\ rot.pc = "call"
    /\ \E r \in {rotate_around_z(rot.vectors, rot.angles, rot.axis)} :
           rot' = [rot EXCEPT !.pc = "done", !.exc = r.exc, !.shape = r.shape]
    /\ UNCHANGED <<ub, args, last, ubA, ubB, tri, qs, lab>>

NextRotate == Rotate

SpecRotate == InitRotate /\ [][NextRotate]_vars

\* C10: rotate_around_z with an axis selector other than 0 or 1 fails with the
\* invalid-argument error, for every such selector (another integer, None, a
\* string) and every input shape; it never returns a rotated result.
C10_InvalidAxisFails ==
    (rot.pc = "done" /\ ~AxisIs(rot.axis, 0) /\ ~AxisIs(rot.axis, 1))
        => rot.exc = RotationAxisError

\* an array-like argument of angle_to_qs: a scalar, or a list of len numbers
Scalar == [type |-> "scalar", len |-> 0]
List(n) == [type |-> "list", len |-> n]

\* angle_to_qs(ki, kf, a3, a4)
angle_to_qs(ki, kf, a3, a4) ==
    LET length == IF a3.type = "scalar" \/ a4.type = "scalar" THEN 1
                  ELSE Min(a3.len, a4.len)
        a3_shape == <<1, IF a3.type = "scalar" THEN 1 ELSE a3.len>>
        a4_shape == <<1, IF a4.type = "scalar" THEN 1 ELSE a4.len>>
        initial_vectors == [type |-> "ndarray", shape |-> <<3, length>>]
        ki_in_s ==
            IF ki.type = "scalar" THEN Returned(initial_vectors.shape)
            ELSE IF ki.len = length THEN Broadcast(<<ki.len>>, initial_vectors.shape)
            ELSE IF ki.len = 0 THEN Raised(IndexError)
            ELSE Returned(initial_vectors.shape)
        rotated == rotate_around_z(initial_vectors, a4_shape, <<"int", 1>>)
        kf_in_s ==
            IF rotated.exc # "none" \/ kf.type = "scalar" THEN rotated
            ELSE Broadcast(<<kf.len>>, rotated.shape)
        difference == Broadcast(kf_in_s.shape, ki_in_s.shape)
    IN  IF ki_in_s.exc # "none" THEN ki_in_s
        ELSE IF kf_in_s.exc # "none" THEN kf_in_s
        ELSE IF difference.exc # "none" THEN difference
        ELSE rotate_around_z([type |-> "ndarray", shape |-> difference.shape],
                             a3_shape, <<"int", 1>>)

MaxLen == 3

ArrayLikes == {Scalar} \cup {List(n) : n \in 1..MaxLen}

InitQs ==
    /\ qs \in [ki : ArrayLikes, kf : ArrayLikes, a3 : ArrayLikes, a4 : ArrayLikes,
               pc : {"call"}, exc : {"none"}, shape : {<< >>}]
    /\ UBIdle /\ EqIdle /\ tri = Idle /\ lab = Idle /\ rot = Idle

AngleToQs ==
    /\ qs.pc = "call"
    /\ \E r \in {angle_to_qs(qs.ki, qs.kf, qs.a3, qs.a4)} :
           qs' = [qs EXCEPT !.pc = "done", !.exc = r.exc, !.shape = r.shape]
    /\ UNCHANGED <<ub, args, last, ubA, ubB, tri, lab, rot>>

NextQs == AngleToQs

SpecQs == InitQs /\ [][NextQs]_vars

\* C7: for array-like a3 and a4 of lengths n3 >= 1 and n4 >= 1, equal or
\* different, and scalar ki and kf, angle_to_qs returns a 3 x N array with
\* N = min(n3, n4); it does not fail when n3 differs from n4.
C7_ReturnsMinLengthBatch ==
    (qs.pc = "done" /\ qs.a3.type = "list" /\ qs.a4.type = "list"
        /\ qs.ki.type = "scalar" /\ qs.kf.type = "scalar")
        => (qs.exc = "none" /\ qs.shape = <<3, Min(qs.a3.len, qs.a4.len)>>)

====
